---------------------------- MODULE Spec2Model ----------------------------
(***************************************************************************)
(* A model of the rac arm controller (controller/src): the f64 geometry,   *)
(* the joint motion transfers, the servo encoding, the Robot update cycle  *)
(* of robot/mod.rs and the Full planner of robot/movement/full.rs.         *)
(*                                                                         *)
(* Numbers.  An f64 is a fixed-point integer, value * Scale, or one of the *)
(* three special values NaN, PosInf, NegInf.  Every operation rounds to    *)
(* the nearest representable value (sqrt rounds down).  -0.0 is not kept   *)
(* apart from +0.0; f64::signum(0.0) is 1.0, as in Rust.                   *)
(*                                                                         *)
(* Angles.  A value the source holds in radians is an integer number of    *)
(* units of pi/180 (so PI is 180 units); a value the source holds in       *)
(* degrees is an ordinary fixed-point number.  to_degrees and to_radians   *)
(* convert between the two.  The trigonometric functions are tables with   *)
(* one entry per unit, and their inverses return the nearest unit.         *)
(***************************************************************************)
EXTENDS Integers, Sequences, FiniteSets, TLC

\* resolution of the fixed-point representation of f64
Scale == 1000

\* the special values of f64
NaN == -2000000000
PosInf == 2000000001
NegInf == -2000000001

\* core::f64::consts::PI, in angle units
PI == 180

IsNaN(x) == x = NaN
IsInf(x) == x = PosInf \/ x = NegInf
IsFinite(x) == ~IsNaN(x) /\ ~IsInf(x)

Abs(x) == IF x < 0 THEN -x ELSE x
Sgn(x) == IF x < 0 THEN -1 ELSE 1

\* a * b / Scale for a, b >= 0, rounded to nearest, without forming a * b
MulNat(a, b) ==
  LET ah == a \div Scale
      al == a % Scale
      lo == al * b
  IN  ah * b + (lo \div Scale) + (IF 2 * (lo % Scale) >= Scale THEN 1 ELSE 0)

\* the fraction r / b (0 <= r < b) times s, s a power of ten, rounded to
\* nearest; one decimal digit at a time, so that no product exceeds 10 * b
RECURSIVE FracDigits(_, _, _)
FracDigits(r, b, s) ==
  IF s = 1 THEN (IF 2 * r >= b THEN 1 ELSE 0)
  ELSE ((r * 10) \div b) * (s \div 10) + FracDigits((r * 10) % b, b, s \div 10)

\* a * Scale / b for a >= 0, b > 0, rounded to nearest; a very large divisor
\* is first shortened by one digit, together with the dividend
DivNat(a, b) ==
  LET big == b >= 200000 * Scale
      n == IF big THEN a \div 10 ELSE a
      d == IF big THEN b \div 10 ELSE b
  IN  (n \div d) * Scale + FracDigits(n % d, d, Scale)

\* f64 negation
FNeg(a) ==
  IF IsNaN(a) THEN NaN
  ELSE IF a = PosInf THEN NegInf
  ELSE IF a = NegInf THEN PosInf
  ELSE -a

\* f64 addition
FAdd(a, b) ==
  IF IsNaN(a) \/ IsNaN(b) THEN NaN
  ELSE IF IsInf(a) /\ IsInf(b) THEN (IF a = b THEN a ELSE NaN)
  ELSE IF IsInf(a) THEN a
  ELSE IF IsInf(b) THEN b
  ELSE a + b

\* f64 subtraction
FSub(a, b) == FAdd(a, FNeg(b))

\* f64 multiplication
FMul(a, b) ==
  IF IsNaN(a) \/ IsNaN(b) THEN NaN
  ELSE IF IsInf(a) \/ IsInf(b) THEN
    (IF a = 0 \/ b = 0 THEN NaN
     ELSE IF (a > 0) = (b > 0) THEN PosInf ELSE NegInf)
  ELSE Sgn(a) * Sgn(b) * MulNat(Abs(a), Abs(b))

\* f64 division: x / 0 is an infinity, 0 / 0 is NaN
FDiv(a, b) ==
  IF IsNaN(a) \/ IsNaN(b) THEN NaN
  ELSE IF IsInf(a) /\ IsInf(b) THEN NaN
  ELSE IF IsInf(a) THEN (IF (a > 0) = (b >= 0) THEN PosInf ELSE NegInf)
  ELSE IF IsInf(b) THEN 0
  ELSE IF b = 0 THEN
    (IF a = 0 THEN NaN ELSE IF a > 0 THEN PosInf ELSE NegInf)
  ELSE Sgn(a) * Sgn(b) * DivNat(Abs(a), Abs(b))

\* f64 comparisons: every comparison with NaN is false
FLt(a, b) == ~IsNaN(a) /\ ~IsNaN(b) /\ a < b
FGt(a, b) == FLt(b, a)
FLe(a, b) == ~IsNaN(a) /\ ~IsNaN(b) /\ a <= b
FGe(a, b) == FLe(b, a)

\* f64::abs
FAbs(a) == IF IsNaN(a) THEN NaN ELSE IF IsInf(a) THEN PosInf ELSE Abs(a)

\* f64::signum: 1.0 for +0.0 and every positive value, NaN for NaN
Signum(a) == IF IsNaN(a) THEN NaN ELSE IF a < 0 THEN -Scale ELSE Scale

\* f64::powi(2)
Sq(a) == FMul(a, a)

\* the largest r in lo..hi with r * r <= x * Scale
RECURSIVE SqrtSearch(_, _, _)
SqrtSearch(x, lo, hi) ==
  IF lo >= hi THEN lo
  ELSE LET mid == (lo + hi + 1) \div 2
           mh == mid \div Scale
           ml == mid % Scale
           q == mh * mid + ((ml * mid) \div Scale)
       IN  IF q <= x /\ ~(q = x /\ (ml * mid) % Scale > 0)
           THEN SqrtSearch(x, mid, hi)
           ELSE SqrtSearch(x, lo, mid - 1)

\* f64::sqrt
FSqrt(a) ==
  IF IsNaN(a) \/ a = NegInf THEN NaN
  ELSE IF a = PosInf THEN PosInf
  ELSE IF a < 0 THEN NaN
  ELSE SqrtSearch(a, 0, IF a < Scale THEN Scale
                        ELSE IF a < 1400 * Scale THEN a ELSE 1400 * Scale)

\* f64::clamp
FClamp(a, min, max) ==
  IF IsNaN(a) THEN NaN ELSE IF a < min THEN min ELSE IF a > max THEN max ELSE a

\* sin of 0..90 units, times Scale
SinTab ==
  <<0, 17, 35, 52, 70, 87, 105, 122, 139, 156, 174, 191, 208, 225, 242,
    259, 276, 292, 309, 326, 342, 358, 375, 391, 407, 423, 438, 454, 469, 485,
    500, 515, 530, 545, 559, 574, 588, 602, 616, 629, 643, 656, 669, 682, 695,
    707, 719, 731, 743, 755, 766, 777, 788, 799, 809, 819, 829, 839, 848, 857,
    866, 875, 883, 891, 899, 906, 914, 921, 927, 934, 940, 946, 951, 956, 961,
    966, 970, 974, 978, 982, 985, 988, 990, 993, 995, 996, 998, 999, 999, 1000,
    1000>>

\* tan of 0.5, 1.5, .. 89.5 units, times Scale
TanHalfTab ==
  <<9, 26, 44, 61, 79, 96, 114, 132, 149, 167, 185, 203, 222, 240, 259,
    277, 296, 315, 335, 354, 374, 394, 414, 435, 456, 477, 499, 521, 543, 566,
    589, 613, 637, 662, 687, 713, 740, 767, 795, 824, 854, 885, 916, 949, 983,
    1018, 1054, 1091, 1130, 1171, 1213, 1257, 1303, 1351, 1402, 1455, 1511, 1570, 1632, 1698,
    1767, 1842, 1921, 2006, 2097, 2194, 2300, 2414, 2539, 2675, 2824, 2989, 3172, 3376, 3606,
    3867, 4165, 4511, 4915, 5396, 5976, 6691, 7596, 8777, 10385, 12706, 16350, 22904, 38188, 114589>>

\* cos of 0.5, 1.5, .. 89.5 units, times Scale
CosHalfTab ==
  <<1000, 1000, 999, 998, 997, 995, 994, 991, 989, 986, 983, 980, 976, 972, 968,
    964, 959, 954, 948, 943, 937, 930, 924, 917, 910, 903, 895, 887, 879, 870,
    862, 853, 843, 834, 824, 814, 804, 793, 783, 772, 760, 749, 737, 725, 713,
    701, 688, 676, 663, 649, 636, 623, 609, 595, 581, 566, 552, 537, 522, 508,
    492, 477, 462, 446, 431, 415, 399, 383, 367, 350, 334, 317, 301, 284, 267,
    250, 233, 216, 199, 182, 165, 148, 131, 113, 96, 78, 61, 44, 26, 9>>

\* f64::sin of an angle
Sin(r) ==
  IF ~IsFinite(r) THEN NaN
  ELSE LET m == r % 360
       IN  IF m <= 90 THEN SinTab[m + 1]
           ELSE IF m <= 180 THEN SinTab[180 - m + 1]
           ELSE IF m <= 270 THEN -SinTab[m - 180 + 1]
           ELSE -SinTab[360 - m + 1]

\* f64::cos of an angle
Cos(r) == IF ~IsFinite(r) THEN NaN ELSE Sin(r + 90)

\* f64::atan: the nearest angle in -90..90; atan(+-inf) is +-pi/2
Atan(x) ==
  IF IsNaN(x) THEN NaN
  ELSE IF x = PosInf THEN 90
  ELSE IF x = NegInf THEN -90
  ELSE Sgn(x) * Cardinality({d \in 1..90 : TanHalfTab[d] <= Abs(x)})

\* f64::acos: the nearest angle in 0..180; NaN outside [-1, 1]
Acos(x) ==
  IF ~IsFinite(x) THEN NaN
  ELSE IF x > Scale \/ x < -Scale THEN NaN
  ELSE IF x >= 0 THEN Cardinality({k \in 1..90 : CosHalfTab[k] > x})
  ELSE 180 - Cardinality({k \in 1..90 : CosHalfTab[k] > -x})

\* f64::to_degrees of an angle
to_degrees(r) == IF IsFinite(r) THEN r * Scale ELSE r

\* f64::to_radians of a number of degrees, to the nearest angle unit
to_radians(d) ==
  IF ~IsFinite(d) THEN d
  ELSE Sgn(d) * ((Abs(d) + Scale \div 2) \div Scale)


\* `x as i8` for the f64 values signum returns: NaN becomes 0
AsI8(x) == IF IsNaN(x) THEN 0 ELSE IF x < 0 THEN -1 ELSE IF x > 0 THEN 1 ELSE 0

\* `x as u16`: truncates toward zero and saturates; NaN becomes 0
AsU16(x) ==
  IF IsNaN(x) THEN 0
  ELSE IF x = NegInf \/ x < 0 THEN 0
  ELSE IF x = PosInf \/ x >= 65535 * Scale THEN 65535
  ELSE x \div Scale

(***************************************************************************)
(* kinematics/mod.rs: the triangle helpers                                 *)
(***************************************************************************)

\* an a_from_lengths that clamps the quotient into the domain of acos
a_from_lengths_clamped(a, b, c) ==
  LET x == FAdd(FAdd(FNeg(FMul(c, c)), FMul(a, a)), FMul(b, b))
      y == FMul(FMul(2 * Scale, a), b)
  IN  Acos(FClamp(FDiv(x, y), -Scale, Scale))

\* triangle::a_from_lengths; a quotient outside [-1, 1] is told from x and y,
\* which the rounding of the quotient would hide
a_from_lengths(a, b, c) ==
  LET x == FAdd(FAdd(FNeg(FMul(c, c)), FMul(a, a)), FMul(b, b))
      y == FMul(FMul(2 * Scale, a), b)
  IN  IF IsFinite(x) /\ IsFinite(y) /\ y # 0 /\ Abs(x) > Abs(y)
      THEN NaN
      ELSE Acos(FDiv(x, y))

\* triangle::length_from_two_lengths_and_angle
length_from_two_lengths_and_angle(angle, a, b) ==
  LET x == FSub(a, FMul(Cos(angle), a))
      y == FMul(Sin(angle), b)
  IN  FSqrt(FAdd(FMul(x, x), FMul(y, y)))

(***************************************************************************)
(* kinematics/position.rs: CordinateVec and SphereVec                      *)
(***************************************************************************)

\* CordinateVec::new
Vec(x, y, z) == [x |-> x, y |-> y, z |-> z]

VAdd(a, b) == Vec(FAdd(a.x, b.x), FAdd(a.y, b.y), FAdd(a.z, b.z))
VSub(a, b) == Vec(FSub(a.x, b.x), FSub(a.y, b.y), FSub(a.z, b.z))
VScale(a, k) == Vec(FMul(a.x, k), FMul(a.y, k), FMul(a.z, k))
VMul(a, b) == Vec(FMul(a.x, b.x), FMul(a.y, b.y), FMul(a.z, b.z))

\* CordinateVec::cube_clamp
cube_clamp(v, min, max) ==
  Vec(FClamp(v.x, min, max), FClamp(v.y, min, max), FClamp(v.z, min, max))

\* the largest r in lo..hi with r * r <= n
RECURSIVE ISqrtSearch(_, _, _)
ISqrtSearch(n, lo, hi) ==
  IF lo >= hi THEN lo
  ELSE LET mid == (lo + hi + 1) \div 2
       IN  IF mid * mid <= n THEN ISqrtSearch(n, mid, hi)
           ELSE ISqrtSearch(n, lo, mid - 1)

\* (x*x + y*y + z*z).sqrt(): to the unit where the squares of the units fit,
\* so that a short vector keeps its length
Norm(x, y, z) ==
  IF /\ IsFinite(x) /\ IsFinite(y) /\ IsFinite(z)
     /\ Abs(x) < 26000 /\ Abs(y) < 26000 /\ Abs(z) < 26000
  THEN ISqrtSearch(x * x + y * y + z * z, 0, 46000)
  ELSE FSqrt(FAdd(FAdd(Sq(x), Sq(y)), Sq(z)))

\* CordinateVec::f_dst
f_dst(v) == Norm(v.x, v.y, 0)

\* CordinateVec::dst
dst(v) == Norm(v.x, v.y, v.z)

\* Vec3D::f_dst of kinematics.rs
Vec3D_f_dst(v) == Norm(v.x, v.y, 0)

\* Vec3D::dst of kinematics.rs: it squares z twice and leaves y out
Vec3D_dst(v) == Norm(v.x, v.z, v.z)

\* an azimuth that leaves the half turn for negative x out
azimuth_half_plane(v) ==
  LET s == AsI8(Signum(v.x))
  IN  IF s = 1 \/ s = -1 THEN Atan(FDiv(v.y, v.x)) ELSE 0

\* CordinateVec::azimuth
azimuth(v) ==
  LET s == AsI8(Signum(v.x))
  IN  IF s = 1 THEN Atan(FDiv(v.y, v.x))
      ELSE IF s = -1 THEN FAdd(Atan(FDiv(v.y, v.x)), PI)
      ELSE 0

\* CordinateVec::polar
polar(v) ==
  LET s == AsI8(Signum(v.z))
  IN  IF s = 1 THEN Atan(FDiv(f_dst(v), v.z))
      ELSE IF s = -1 THEN FAdd(Atan(FDiv(f_dst(v), v.z)), PI)
      ELSE 0

\* CordinateVec::to_sphere
to_sphere(v) ==
  [azimuth |-> azimuth(v), polar |-> polar(v),
   distance |-> dst(v), flat_distance |-> f_dst(v)]

\* SphereVec::update_dst
update_dst(s, d) ==
  [s EXCEPT !.distance = d, !.flat_distance = FMul(d, Sin(s.polar))]

\* SphereVec::to_position
to_position(s) ==
  Vec(FMul(s.flat_distance, Cos(s.azimuth)),
      FMul(s.flat_distance, Sin(s.azimuth)),
      FMul(s.distance, Cos(s.polar)))

\* an inverse_kinematics without the check of the angles
inverse_kinematics_unchecked(pos, upper_arm, lower_arm) ==
  LET spos == to_sphere(pos)
      base == FAdd(to_degrees(spos.azimuth), 90 * Scale)
      elbow == to_degrees(a_from_lengths(upper_arm, lower_arm, spos.distance))
      a == Atan(FDiv(spos.flat_distance, pos.z))
      b == a_from_lengths(spos.distance, lower_arm, upper_arm)
      shoulder == to_degrees(IF FGt(FAdd(a, b), PI \div 2)
                             THEN FSub(FSub(PI, a), b)
                             ELSE FAdd(a, b))
  IN  <<"Ok", base, shoulder, elbow>>

\* CordinateVec::inverse_kinematics: <<"Ok", base, shoulder, elbow>> or <<"Err">>
inverse_kinematics(pos, upper_arm, lower_arm) ==
  LET spos == to_sphere(pos)
      base == FAdd(to_degrees(spos.azimuth), 90 * Scale)
      elbow == to_degrees(a_from_lengths(upper_arm, lower_arm, spos.distance))
      a == Atan(FDiv(spos.flat_distance, pos.z))
      b == a_from_lengths(spos.distance, lower_arm, upper_arm)
      shoulder == to_degrees(IF FGt(FAdd(a, b), PI \div 2)
                             THEN FSub(FSub(PI, a), b)
                             ELSE FAdd(a, b))
  IN  IF IsNaN(shoulder) \/ IsNaN(base) \/ IsNaN(elbow)
      THEN <<"Err">>
      ELSE <<"Ok", base, shoulder, elbow>>

(***************************************************************************)
(* kinematics/joints.rs: the motion transfers                              *)
(***************************************************************************)

\* DirectDrive::new
DirectDrive == [kind |-> "DirectDrive"]

\* DirectDriveOffset
DirectDriveOffset(offset) == [kind |-> "DirectDriveOffset", offset |-> offset]

\* GearDrive
GearDrive(gear_ratio) == [kind |-> "GearDrive", gear_ratio |-> gear_ratio]

\* DoubleLinkage::new
DoubleLinkage(cro, clo, cpho, cpvo, cprl, crl) ==
  [kind |-> "DoubleLinkage",
   connection_radial_offset |-> cro,
   connection_linear_offset |-> clo,
   controll_pivot_horizontal_offset |-> cpho,
   controll_pivot_vertical_offset |-> cpvo,
   controller_pivot_rod_length |-> cprl,
   connection_rod_length |-> crl]

\* DoubleLinkage::connection_offset: <<angle, distance>>
connection_offset(m) ==
  <<Atan(FDiv(m.connection_linear_offset, m.connection_radial_offset)),
    FSqrt(FAdd(Sq(m.connection_radial_offset), Sq(m.connection_linear_offset)))>>

\* DoubleLinkage::controller_offset: <<angle, distance>>
controller_offset(m) ==
  <<Atan(FDiv(m.controll_pivot_vertical_offset,
              m.controll_pivot_horizontal_offset)),
    FSqrt(FAdd(Sq(m.controll_pivot_horizontal_offset),
               Sq(m.controll_pivot_vertical_offset)))>>

\* impl Motion for DoubleLinkage
DoubleLinkagePivot(m, target) ==
  LET connection == connection_offset(m)
      controller == controller_offset(m)
      inner_target_angle ==
        FSub(PI, FAdd(FAdd(to_radians(target), connection[1]), controller[1]))
      connection_to_controller ==
        length_from_two_lengths_and_angle(inner_target_angle,
                                          connection[2], controller[2])
      x == a_from_lengths(connection_to_controller,
                          m.controller_pivot_rod_length,
                          m.connection_rod_length)
      y == a_from_lengths(connection_to_controller, controller[2], connection[2])
  IN  to_degrees(FSub(FAdd(x, y), controller[1]))

\* Motion::get_pivot_angle, by the kind of motion transfer
get_pivot_angle(m, target) ==
  IF m.kind = "DirectDrive" THEN target
  ELSE IF m.kind = "DirectDriveOffset" THEN FAdd(target, m.offset)
  ELSE IF m.kind = "GearDrive" THEN FMul(target, m.gear_ratio)
  ELSE DoubleLinkagePivot(m, target)

\* Joint::new: the angle starts at 0
Joint(min, max, motion) ==
  [angle |-> 0, min |-> min, max |-> max, motion |-> motion]

(***************************************************************************)
(* robot/mod.rs and robot/arm.rs: the servo commands                       *)
(***************************************************************************)

MAX_SERVO == 2400
MIN_SERVO == 250

\* Joint::into_servo
into_servo(j) ==
  LET factor == FDiv(FSub(get_pivot_angle(j.motion, j.angle), j.min), j.max)
  IN  AsU16(FAdd(FMul((MAX_SERVO - MIN_SERVO) * Scale, factor), j.min))

\* Arm::to_servos
to_servos(arm) ==
  [base |-> into_servo(arm.base), shoulder |-> into_servo(arm.shoulder),
   elbow |-> into_servo(arm.elbow), claw |-> into_servo(arm.claw)]

\* the two bytes of a u16, high byte first
U16BytesBigEndian(v) == <<v \div 256, v % 256>>

\* the two bytes of a u16 in memory (the targets are little-endian)
U16Bytes(v) == <<v % 256, v \div 256>>

\* Servos::to_message: the struct's eight bytes, fields in declaration order
to_message(s) ==
  U16Bytes(s.base) \o U16Bytes(s.shoulder) \o U16Bytes(s.elbow) \o U16Bytes(s.claw)

(***************************************************************************)
(* The state                                                               *)
(***************************************************************************)

VARIABLES
  robot,       \* the Robot of robot/mod.rs (its connection apart)
  connection,  \* robot.connection
  sent,        \* the data the last Robot::update handed to Connection::write
  result,      \* what the last Robot::update returned
  ik,          \* how the IK step of the last Robot::update ended
  log,         \* the lines the last operation logged
  ticks,       \* the number of Robot::update calls so far
  panicked,    \* the process has panicked
  panic,       \* the message of the panic, "" when there is none
  port_writes, \* the data of each SerialPort::write call of the last Robot::update
  movement,    \* a Movement whose mode is Mode::Full
  goal,        \* the target_position the Full planner started with
  events,      \* the number of inputs and new targets given to the planner
  fullTicks,   \* the number of Full::update calls so far
  snapped,     \* the planner has snapped to its target; no input since
  servos,      \* a Servos value
  encoded,     \* Servos::to_message of it, once computed
  joint,       \* a Joint
  command,     \* Joint::into_servo of it, once computed
  args,        \* the arguments of a call of a function of kinematics or parse_gamepad_axis
  value,       \* what the call returned, once made
  serial,      \* a Connection
  stream,      \* the bytes that have arrived at its serial port, in order
  pending,     \* those of them no read has taken from the port yet
  received,    \* the messages Connection::read has returned, in order
  reply,       \* the last operation on the Connection and what it returned
  motion_state, \* a MotionState of robot.rs
  amount,      \* the amount of the last MotionState::ease_in call
  eases        \* the number of ease_in calls so far

robotVars ==
  <<robot, connection, sent, result, ik, log, ticks, panicked, panic, port_writes>>
fullVars == <<movement, goal, events, fullTicks, snapped>>
servoVars == <<servos, encoded, joint, command>>
mathVars == <<args, value>>
serialVars == <<serial, stream, pending, received, reply>>
motionVars == <<motion_state, amount, eases>>
vars == <<robotVars, fullVars, servoVars, mathVars, serialVars, motionVars>>

\* Option
None == << >>
Some(v) == <<v>>

Zero == Vec(0, 0, 0)

(***************************************************************************)
(* logging.rs and communication.rs                                         *)
(***************************************************************************)

LOG_LEVEL == 5

\* logging::warn
warn(message) == IF LOG_LEVEL < 2 THEN << >> ELSE <<"WARN: " \o message>>

\* logging::debug
debug(message) == IF LOG_LEVEL < 4 THEN << >> ELSE <<"DEBG: " \o message>>

\* Connection::new
ConnectionNew ==
  [con |-> None, read_buf |-> << >>, msg_buf |-> << >>, no_connect |-> TRUE]

\* Connection::default
ConnectionDefault ==
  [con |-> None, read_buf |-> << >>, msg_buf |-> << >>, no_connect |-> FALSE]

\* Connection::connect: the Result and the connection after it; io is whether
\* the port opens
connect(c, io) ==
  IF c.no_connect
  THEN [result |-> "Ok", connection |-> c,
        log |-> debug("Not connecting due to no_connect flag")]
  ELSE IF io
  THEN [result |-> "Ok", connection |-> [c EXCEPT !.con = Some("port")], log |-> << >>]
  ELSE [result |-> "Err", connection |-> c, log |-> << >>]

\* Connection::write_raw without its no_connect test
write_raw_unflagged(c, data, io) ==
  IF c.con = None THEN [result |-> "NotConnected", log |-> << >>, calls |-> << >>]
  ELSE [result |-> IF io THEN "Ok" ELSE "Error", log |-> << >>, calls |-> <<data>>]

\* Connection::write_raw: the Result, the lines logged and the data handed to
\* SerialPort::write; io is whether the port's write succeeds
write_raw(c, data, io) ==
  IF c.no_connect
  THEN [result |-> "Ok", log |-> debug("Not writing due to no_connect flag"),
        calls |-> << >>]
  ELSE IF c.con = None THEN [result |-> "NotConnected", log |-> << >>, calls |-> << >>]
  ELSE [result |-> IF io THEN "Ok" ELSE "Error", log |-> << >>, calls |-> <<data>>]

\* the PREFIX of a message
PREFIX == 13

\* Connection::write that writes once more when the port's write fails
write_retry(c, data, io) ==
  LET w == write_raw(c, <<PREFIX>> \o data, io)
  IN  IF w.result = "Error"
      THEN [w EXCEPT !.calls = @ \o <<<<PREFIX>> \o data>>]
      ELSE w

\* the message Connection::write builds from data
write_message(data) == <<PREFIX>> \o data

\* Connection::write with allow_drooped = true
write(c, data, io) == write_raw(c, write_message(data), io)

\* the loop of Connection::read over the bytes read_to_end gave
RECURSIVE read_bytes(_, _)
read_bytes(c, buf) ==
  IF buf = << >> THEN c
  ELSE LET byte == Head(buf)
           next == IF byte = PREFIX
                   THEN [c EXCEPT !.read_buf = << >>]
                   ELSE IF Len(c.read_buf) = 8
                   THEN [c EXCEPT !.msg_buf = Append(@, c.read_buf),
                                  !.read_buf = <<byte>>]
                   ELSE [c EXCEPT !.read_buf = Append(@, byte)]
       IN  read_bytes(next, Tail(buf))

\* Connection::read: the Result, the connection after it, the lines logged and
\* whether read_to_end was called on the port; buf is what read_to_end gives
\* and io whether it succeeds
read(c, buf, io) ==
  IF c.no_connect
  THEN [result |-> "Ok", message |-> None, connection |-> c, used |-> FALSE,
        log |-> debug("Not reading due to no_connect flag")]
  ELSE IF c.con = None
  THEN [result |-> "NotConnected", message |-> None, connection |-> c,
        used |-> FALSE, log |-> << >>]
  ELSE IF ~io
  THEN [result |-> "Error", message |-> None, connection |-> c, used |-> TRUE,
        log |-> << >>]
  ELSE LET fed == read_bytes(c, buf)
       IN  IF fed.msg_buf = << >>
           THEN [result |-> "Ok", message |-> None, connection |-> fed,
                 used |-> TRUE, log |-> << >>]
           ELSE [result |-> "Ok", message |-> Some(Head(fed.msg_buf)),
                 connection |-> [fed EXCEPT !.msg_buf = Tail(@)], used |-> TRUE,
                 log |-> << >>]

\* MotionState::Idle and MotionState::Moving of robot.rs
Idle == [state |-> "Idle"]
Moving(x) == [state |-> "Moving", x |-> x]

\* MotionState::ease_in
ease_in(m, by) ==
  IF m.state = "Moving"
  THEN Moving(IF IsNaN(by) THEN Scale ELSE IF FLt(by, Scale) THEN by ELSE Scale)
  ELSE m

(***************************************************************************)
(* robot/mod.rs: the update cycle                                          *)
(***************************************************************************)

\* a parse_gamepad_axis that cuts the dead zone out and does not rescale
parse_gamepad_axis_no_rescale(input, deadzone) ==
  IF FLt(FAbs(input), deadzone) THEN 0 ELSE input

\* Robot::parse_gamepad_axis
parse_gamepad_axis(input, deadzone) ==
  IF FLt(FAbs(input), deadzone) THEN 0
  ELSE FMul(Signum(input),
            FDiv(FSub(FAbs(input), deadzone), FSub(Scale, deadzone)))

\* Robot::update_gamepad, up to the check of the Start button
update_gamepad(r, left_axis_x, left_axis_y, right_axis_y) ==
  [r EXCEPT !.target_position = None,
            !.target_velocity =
               VMul(r.max_velocity,
                    Vec(parse_gamepad_axis(left_axis_x, 200),
                        parse_gamepad_axis(left_axis_y, 200),
                        parse_gamepad_axis(right_axis_y, 200)))]

\* Robot::target_position_update
target_position_update(r, target) ==
  LET delta == VSub(target, r.position)
      sphere == to_sphere(delta)
      acceleration == Vec(r.acceleration, r.acceleration, r.acceleration)
      velocity == dst(r.velocity)
      breaking_distance == FDiv(Sq(velocity), FMul(2 * Scale, dst(acceleration)))
  IN  IF FLt(sphere.distance, breaking_distance)
      THEN IF FLt(sphere.distance, 40) /\ FLt(velocity, 70)
           THEN [r EXCEPT !.position = target, !.velocity = Zero,
                          !.target_velocity = Zero, !.target_position = None]
           ELSE [r EXCEPT !.target_velocity = Zero]
      ELSE [r EXCEPT !.target_velocity =
                        to_position(update_dst(sphere, 10000 * Scale))]

\* Robot::update_velocity
update_velocity(r, delta) ==
  LET acceleration == FMul(r.acceleration, delta)
      delta_velocity == cube_clamp(VSub(r.target_velocity, r.velocity),
                                   FNeg(acceleration), acceleration)
  IN  [r EXCEPT !.velocity = VAdd(r.velocity, delta_velocity)]

\* Robot::update_position
update_position(r, delta) ==
  LET moved == VAdd(r.position, VScale(r.velocity, delta))
      sphere == to_sphere(moved)
      reach == FAdd(r.upper_arm, r.lower_arm)
  IN  IF FGe(sphere.distance, reach)
      THEN [r EXCEPT !.position = to_position(update_dst(sphere, reach))]
      ELSE [r EXCEPT !.position = moved]

\* an update_ik that writes a garbage base angle when the solver fails
update_ik_partial(r) ==
  LET angles == inverse_kinematics(r.position, r.upper_arm, r.lower_arm)
  IN  IF angles[1] = "Ok"
      THEN [r EXCEPT !.arm.base.angle = angles[2],
                     !.arm.shoulder.angle = angles[3],
                     !.arm.elbow.angle = angles[4]]
      ELSE [r EXCEPT !.arm.base.angle = NaN]

\* an update_ik that also drives the claw
update_ik_claw(r) ==
  LET angles == inverse_kinematics(r.position, r.upper_arm, r.lower_arm)
  IN  IF angles[1] = "Ok"
      THEN [r EXCEPT !.arm.base.angle = angles[2],
                     !.arm.shoulder.angle = angles[3],
                     !.arm.elbow.angle = angles[4],
                     !.arm.claw.angle = angles[4]]
      ELSE r

\* Robot::update_ik: the robot afterwards
update_ik(r) ==
  LET angles == inverse_kinematics(r.position, r.upper_arm, r.lower_arm)
  IN  IF angles[1] = "Ok"
      THEN [r EXCEPT !.arm.base.angle = angles[2],
                     !.arm.shoulder.angle = angles[3],
                     !.arm.elbow.angle = angles[4]]
      ELSE r

\* Robot::update_ik: the lines it logs
update_ik_log(r) ==
  IF inverse_kinematics(r.position, r.upper_arm, r.lower_arm)[1] = "Ok"
  THEN << >>
  ELSE warn("Could not calculate inverse kinematics")

\* Robot::update, up to the write: the planner steps and the IK step
update_steps(r, delta) ==
  LET r1 == IF r.target_position # None
            THEN target_position_update(r, r.target_position[1])
            ELSE r
      r2 == update_velocity(r1, delta)
  IN  update_position(r2, delta)

(***************************************************************************)
(* robot/movement/full.rs: the Full planner                                *)
(***************************************************************************)

\* a Full::update_position that advances position by the velocity after the
\* whole change
full_update_position_euler(f, delta, acceleration) ==
  LET acc == FMul(acceleration, delta)
      delta_velocity == cube_clamp(VSub(f.target_velocity, f.velocity),
                                   FNeg(acc), acc)
      v2 == VAdd(f.velocity, delta_velocity)
  IN  [f EXCEPT !.velocity = v2, !.position = VAdd(f.position, VScale(v2, delta))]

\* Full::update_position
full_update_position(f, delta, acceleration) ==
  LET acc == FMul(acceleration, delta)
      delta_velocity == cube_clamp(VSub(f.target_velocity, f.velocity),
                                   FNeg(acc), acc)
      v1 == VAdd(f.velocity, VScale(delta_velocity, Scale \div 2))
      p1 == VAdd(f.position, VScale(v1, delta))
      v2 == VAdd(v1, VScale(delta_velocity, Scale \div 2))
  IN  [f EXCEPT !.velocity = v2, !.position = p1]

\* Full::goto_target: the branch a tick takes
goto_branch(f, time_delta, acceleration, target) ==
  LET delta == VSub(target, f.position)
      distance == dst(delta)
      velocity == dst(f.velocity)
  IN  IF FGt(distance, FDiv(Sq(velocity), FMul(2 * Scale, acceleration)))
      THEN "accelerate"
      ELSE IF FLt(distance, 40) /\ FLt(velocity, FMul(acceleration, time_delta))
      THEN "snap"
      ELSE "brake"

\* a goto_target whose snap leaves target_velocity as it is
goto_target_keep_target_velocity(f, time_delta, acceleration, target) ==
  LET branch == goto_branch(f, time_delta, acceleration, target)
      half == FMul(FMul(acceleration, time_delta), Scale \div 2)
  IN  IF branch = "accelerate"
      THEN LET delta_velocity ==
                 to_position(update_dst(to_sphere(VSub(target, f.position)), half))
               v1 == VAdd(f.velocity, delta_velocity)
               p1 == VAdd(f.position, VScale(v1, time_delta))
           IN  [f EXCEPT !.velocity = VAdd(v1, delta_velocity), !.position = p1]
      ELSE IF branch = "snap"
      THEN [f EXCEPT !.position = target, !.velocity = Zero,
                     !.target_position = None]
      ELSE LET delta_velocity ==
                 to_position(update_dst(to_sphere(f.velocity), half))
               v1 == VSub(f.velocity, delta_velocity)
               p1 == VAdd(f.position, VScale(v1, time_delta))
           IN  [f EXCEPT !.velocity = VSub(v1, delta_velocity), !.position = p1]

\* a goto_target whose braking branch sets target_velocity to zero
goto_target_brake_stops_input(f, time_delta, acceleration, target) ==
  LET branch == goto_branch(f, time_delta, acceleration, target)
      half == FMul(FMul(acceleration, time_delta), Scale \div 2)
  IN  IF branch = "accelerate"
      THEN LET delta_velocity ==
                 to_position(update_dst(to_sphere(VSub(target, f.position)), half))
               v1 == VAdd(f.velocity, delta_velocity)
               p1 == VAdd(f.position, VScale(v1, time_delta))
           IN  [f EXCEPT !.velocity = VAdd(v1, delta_velocity), !.position = p1]
      ELSE IF branch = "snap"
      THEN [f EXCEPT !.position = target, !.velocity = Zero,
                     !.target_velocity = Zero, !.target_position = None]
      ELSE LET delta_velocity ==
                 to_position(update_dst(to_sphere(f.velocity), half))
               v1 == VSub(f.velocity, delta_velocity)
               p1 == VAdd(f.position, VScale(v1, time_delta))
           IN  [f EXCEPT !.velocity = VSub(v1, delta_velocity), !.position = p1,
                         !.target_velocity = Zero]

\* Full::goto_target
goto_target(f, time_delta, acceleration, target) ==
  LET branch == goto_branch(f, time_delta, acceleration, target)
      half == FMul(FMul(acceleration, time_delta), Scale \div 2)
  IN  IF branch = "accelerate"
      THEN LET delta_velocity ==
                 to_position(update_dst(to_sphere(VSub(target, f.position)), half))
               v1 == VAdd(f.velocity, delta_velocity)
               p1 == VAdd(f.position, VScale(v1, time_delta))
           IN  [f EXCEPT !.velocity = VAdd(v1, delta_velocity), !.position = p1]
      ELSE IF branch = "snap"
      THEN [f EXCEPT !.position = target, !.velocity = Zero,
                     !.target_velocity = Zero, !.target_position = None]
      ELSE LET delta_velocity ==
                 to_position(update_dst(to_sphere(f.velocity), half))
               v1 == VSub(f.velocity, delta_velocity)
               p1 == VAdd(f.position, VScale(v1, time_delta))
           IN  [f EXCEPT !.velocity = VSub(v1, delta_velocity), !.position = p1]

\* impl MovementMode for Full: update
full_update(f, delta, acceleration) ==
  IF f.target_position # None
  THEN goto_target(f, delta, acceleration, f.target_position[1])
  ELSE full_update_position(f, delta, acceleration)

\* impl MovementMode for Full: update_inputs
full_update_inputs(f, inputs) ==
  [f EXCEPT !.target_velocity = Vec(FMul(f.max_velocity.x, inputs[1]),
                                    FMul(f.max_velocity.y, inputs[2]),
                                    FMul(f.max_velocity.z, inputs[3]))]

(***************************************************************************)
(* Configurations and inputs                                               *)
(***************************************************************************)

\* the number of Robot::update calls explored
MaxTicks == 2

\* the number of Full::update calls explored
MaxFullTicks == 24

\* the number of inputs and new targets given to the Full planner
MaxEvents == 1

\* Joint::default
JointDefault == [angle |-> 0, min |-> 0, max |-> 180 * Scale, motion |-> DirectDrive]

\* Arm::default
ArmDefault ==
  [base |-> JointDefault, shoulder |-> JointDefault,
   elbow |-> JointDefault, claw |-> JointDefault]

\* the shoulder linkage of main.rs
MainShoulder ==
  DoubleLinkage(73 * Scale, 24 * Scale, 63 * Scale, 2500, 50 * Scale, 108 * Scale)

\* the elbow linkage of main.rs
MainElbow ==
  DoubleLinkage(1 * Scale, 10 * Scale, 10 * Scale, 1 * Scale, 10 * Scale, 20 * Scale)

\* the arm main.rs builds
ArmMain ==
  [base |-> Joint(0, 180 * Scale, DirectDrive),
   shoulder |-> Joint(0, 180 * Scale, MainShoulder),
   elbow |-> Joint(0, 180 * Scale, MainElbow),
   claw |-> Joint(0, 180 * Scale, DirectDrive)]

\* the robot of main.rs, at a position
RobotMain(position) ==
  [position |-> position, target_position |-> None, velocity |-> Zero,
   max_velocity |-> Vec(100 * Scale, 100 * Scale, 100 * Scale),
   target_velocity |-> Zero, acceleration |-> 10 * Scale, arm |-> ArmMain,
   upper_arm |-> 275 * Scale, lower_arm |-> 279 * Scale, claw_open |-> FALSE]

\* the robot of the test of robot/mod.rs, at a position
RobotTest(position) ==
  [position |-> position, target_position |-> None, velocity |-> Zero,
   max_velocity |-> Vec(100 * Scale, 100 * Scale, 100 * Scale),
   target_velocity |-> Zero, acceleration |-> 100 * Scale, arm |-> ArmDefault,
   upper_arm |-> 100 * Scale, lower_arm |-> 100 * Scale, claw_open |-> FALSE]

\* the claw angles the program uses: closed and open
ClawAngles == {0, 180 * Scale}

\* the robots the update cycle starts from
RobotStarts ==
  {RobotMain(Vec(0, 300 * Scale, 300 * Scale)),
   RobotMain(Vec(0, 100, 300 * Scale)),
   RobotMain(Vec(-100 * Scale, 100 * Scale, -300 * Scale)),
   RobotMain(Vec(0, 400 * Scale, 400 * Scale)),
   RobotTest(Zero),
   RobotTest(Vec(60 * Scale, 80 * Scale, 10 * Scale))}

\* the elapsed times handed to Robot::update
Deltas == {100}

\* the axis values (left x, left y, right y) a gamepad reports
GamepadInputs ==
  {<<0, 0, 0>>, <<Scale, 0, 0>>, <<0, -Scale, 0>>, <<500, 100, -Scale>>}

\* the targets given to the robot
RobotTargets == {Vec(0, 300 * Scale, 310 * Scale)}

\* a Full planner at rest at the origin
FullAt(target_position) ==
  [kind |-> "Full", position |-> Zero, velocity |-> Zero, target_velocity |-> Zero,
   max_velocity |-> Vec(100 * Scale, 100 * Scale, 100 * Scale),
   target_position |-> target_position]

\* Joints::from_tuple
Joints(tuple) == [base |-> tuple[1], shoulder |-> tuple[2], elbow |-> tuple[3]]

\* a Medium planner at rest
MediumStart ==
  [kind |-> "Medium",
   position |-> [y |-> 300 * Scale, z |-> 300 * Scale, azimuth |-> 0],
   velocity |-> [y |-> 0, z |-> 0, azimuth |-> 0],
   target_velocity |-> [y |-> 0, z |-> 0, azimuth |-> 0],
   target_position |-> None]

\* a NoAssist planner at rest
NoAssistStart ==
  [kind |-> "NoAssist", position |-> Joints(<<90 * Scale, 90 * Scale, 90 * Scale>>),
   velocity |-> Joints(<<0, 0, 0>>), target_velocity |-> Joints(<<0, 0, 0>>),
   target_position |-> None]

\* the targets given to the planner: at distance 10 along each axis, at
\* distance 0.02, and at the planner's own position
FullTargets ==
  {Vec(10 * Scale, 0, 0), Vec(-10 * Scale, 0, 0), Vec(0, 10 * Scale, 0),
   Vec(0, -10 * Scale, 0), Vec(0, 0, 10 * Scale), Vec(0, 0, -10 * Scale),
   Vec(20, 0, 0), Zero}

\* a position of the planner shortly inside the reach of main.rs's arm
FullEdgeStart == Vec(390 * Scale, 0, 390 * Scale)

\* upper_arm + lower_arm of main.rs
MainReach == FAdd(275 * Scale, 279 * Scale)

\* a planner under way: after a deflection of 0.03 along x and one tick of
\* 0.1 s (velocity 3, position 0.15), given a target 0.04 ahead
FullUnderWay ==
  [full_update(full_update_inputs(FullAt(None), <<30, 0, 0>>), 100, 100 * Scale)
     EXCEPT !.target_position = Some(Vec(190, 0, 0))]

\* the targets given to a planner under way
FullNewTargets == {Vec(10 * Scale, 0, 0), Vec(0, 0, 10 * Scale), Zero}

\* the inputs given to the planner
FullInputs == {<<0, 0, 0>>, <<Scale, 0, 0>>, <<500, 0, -Scale>>}

\* the elapsed time handed to Full::update
FullDeltas == {100}

\* the values of a servo command tried
U16Samples == {0, 1, 50, 100, 200, 255, 256, 2400, 65535}

\* the joints tried
JointSamples ==
  {[angle |-> a, min |-> mn, max |-> mx, motion |-> m] :
     a \in {0, 30 * Scale, 45 * Scale, 90 * Scale, 100 * Scale, 180 * Scale},
     mn \in {0, 30 * Scale}, mx \in {180 * Scale, 90 * Scale},
     m \in {DirectDrive, DirectDriveOffset(10 * Scale), GearDrive(500),
            MainShoulder, MainElbow}}

(***************************************************************************)
(* The update cycle of robot/mod.rs as a state machine                     *)
(***************************************************************************)

RobotIdle ==
  /\ robot = RobotTest(Zero)
  /\ connection = ConnectionNew
  /\ sent = << >>
  /\ result = "none"
  /\ ik = "none"
  /\ log = << >>
  /\ ticks = 0
  /\ panicked = FALSE
  /\ panic = ""
  /\ port_writes = << >>

FullIdle ==
  /\ movement = [mode |-> FullAt(None), acceleration |-> 100 * Scale]
  /\ goal = None
  /\ events = 0
  /\ fullTicks = 0
  /\ snapped = FALSE

ServoIdle ==
  /\ servos = [base |-> 0, shoulder |-> 0, elbow |-> 0, claw |-> 0]
  /\ encoded = None
  /\ joint = JointDefault
  /\ command = None

MathIdle ==
  /\ args = [fn |-> "none"]
  /\ value = [op |-> "none"]

SerialIdle ==
  /\ serial = ConnectionNew
  /\ stream = << >>
  /\ pending = << >>
  /\ received = << >>
  /\ reply = [op |-> "none"]

MotionIdle ==
  /\ motion_state = Idle
  /\ amount = 0
  /\ eases = 0

Init ==
  /\ \E r \in RobotStarts, c \in ClawAngles :
       robot = [r EXCEPT !.arm.claw.angle = c]
  /\ connection \in {ConnectionNew, ConnectionDefault,
                     connect(ConnectionDefault, TRUE).connection}
  /\ sent = << >>
  /\ result = "none"
  /\ ik = "none"
  /\ log = << >>
  /\ ticks = 0
  /\ panicked = FALSE
  /\ panic = ""
  /\ port_writes = << >>
  /\ FullIdle
  /\ ServoIdle
  /\ MathIdle
  /\ SerialIdle
  /\ MotionIdle

\* main.rs: a gamepad event arrives and Robot::update_gamepad handles it
UpdateGamepad ==
  /\ ~panicked
  /\ \E in \in GamepadInputs, start \in BOOLEAN :
       /\ robot' = update_gamepad(robot, in[1], in[2], in[3])
       /\ panicked' = start
       /\ panic' = IF start THEN "Start button pressed, there is only death now" ELSE ""
  /\ log' = << >>
  /\ UNCHANGED <<connection, sent, result, ik, ticks, port_writes, fullVars,
                 servoVars, mathVars,
                 serialVars, motionVars>>

\* a target position is given to the robot
SetTarget ==
  /\ ~panicked
  /\ \E t \in RobotTargets : robot' = [robot EXCEPT !.target_position = Some(t)]
  /\ log' = << >>
  /\ UNCHANGED <<connection, sent, result, ik, ticks, panicked, panic, port_writes,
                 fullVars, servoVars, mathVars,
                 serialVars, motionVars>>

\* Robot::update
Update ==
  /\ ~panicked
  /\ ticks < MaxTicks
  /\ \E delta \in Deltas, io \in BOOLEAN :
       \E moved \in {update_steps(robot, delta)} :
         \E after \in {update_ik(moved)} :
           \E data \in {to_message(to_servos(after.arm))} :
             \E w \in {write(connection, data, io)} :
               /\ robot' = after
               /\ ik' = inverse_kinematics(moved.position, moved.upper_arm,
                                           moved.lower_arm)[1]
               /\ sent' = data
               /\ result' = w.result
               /\ log' = update_ik_log(moved) \o w.log
               /\ port_writes' = w.calls
  /\ ticks' = ticks + 1
  /\ UNCHANGED <<connection, panicked, panic, fullVars, servoVars, mathVars,
                 serialVars, motionVars>>

Next == UpdateGamepad \/ SetTarget \/ Update

Spec == Init /\ [][Next]_vars

(***************************************************************************)
(* The Full planner as a state machine                                     *)
(***************************************************************************)

InitFull ==
  /\ \/ \E t \in {None} \cup {Some(v) : v \in FullTargets} :
          /\ movement = [mode |-> FullAt(t), acceleration |-> 100 * Scale]
          /\ goal = t
     \/ /\ movement = [mode |-> [FullAt(None) EXCEPT !.position = FullEdgeStart],
                       acceleration |-> 100 * Scale]
        /\ goal = None
     \/ /\ movement = [mode |-> FullUnderWay, acceleration |-> 100 * Scale]
        /\ goal = FullUnderWay.target_position
     \/ /\ \E m \in {MediumStart, NoAssistStart} :
             movement = [mode |-> m, acceleration |-> 100 * Scale]
        /\ goal = None
  /\ events = 0
  /\ fullTicks = 0
  /\ snapped = FALSE
  /\ RobotIdle
  /\ ServoIdle
  /\ MathIdle
  /\ SerialIdle
  /\ MotionIdle

\* Movement::update with Mode::Full
FullUpdate ==
  /\ movement.mode.kind = "Full"
  /\ fullTicks < MaxFullTicks
  /\ \E delta \in FullDeltas :
       /\ movement' = [movement EXCEPT
                         !.mode = full_update(@, delta, movement.acceleration)]
       /\ snapped' = IF movement.mode.target_position # None
                     THEN goto_branch(movement.mode, delta, movement.acceleration,
                                      movement.mode.target_position[1]) = "snap"
                     ELSE snapped
  /\ fullTicks' = fullTicks + 1
  /\ UNCHANGED <<goal, events, robotVars, servoVars, mathVars,
                 serialVars, motionVars>>

\* Movement::update_inputs with Mode::Full
FullUpdateInputs ==
  /\ movement.mode.kind = "Full"
  /\ events < MaxEvents
  /\ \E inputs \in FullInputs :
       movement' = [movement EXCEPT !.mode = full_update_inputs(@, inputs)]
  /\ events' = events + 1
  /\ snapped' = FALSE
  /\ UNCHANGED <<goal, fullTicks, robotVars, servoVars, mathVars,
                 serialVars, motionVars>>

\* a target position is given to the planner
FullSetTarget ==
  /\ movement.mode.kind = "Full"
  /\ events < MaxEvents
  /\ \E t \in FullNewTargets :
       movement' = [movement EXCEPT !.mode.target_position = Some(t)]
  /\ events' = events + 1
  /\ snapped' = FALSE
  /\ UNCHANGED <<goal, fullTicks, robotVars, servoVars, mathVars,
                 serialVars, motionVars>>

\* Movement::update with Mode::Medium: Medium::update is todo!()
MediumUpdate ==
  /\ movement.mode.kind = "Medium"
  /\ ~panicked
  /\ panicked' = TRUE
  /\ panic' = "not yet implemented"
  /\ UNCHANGED <<robot, connection, sent, result, ik, log, ticks, port_writes,
                 fullVars, servoVars, mathVars,
                 serialVars, motionVars>>

\* Movement::update_inputs with Mode::Medium: Medium::update_inputs is todo!()
MediumUpdateInputs ==
  /\ movement.mode.kind = "Medium"
  /\ ~panicked
  /\ panicked' = TRUE
  /\ panic' = "not yet implemented"
  /\ UNCHANGED <<robot, connection, sent, result, ik, log, ticks, port_writes,
                 fullVars, servoVars, mathVars,
                 serialVars, motionVars>>

\* Movement::update with Mode::NoAssist: NoAssist::update is todo!()
NoAssistUpdate ==
  /\ movement.mode.kind = "NoAssist"
  /\ ~panicked
  /\ panicked' = TRUE
  /\ panic' = "not yet implemented"
  /\ UNCHANGED <<robot, connection, sent, result, ik, log, ticks, port_writes,
                 fullVars, servoVars, mathVars,
                 serialVars, motionVars>>

\* Movement::update_inputs with Mode::NoAssist
NoAssistUpdateInputs ==
  /\ movement.mode.kind = "NoAssist"
  /\ ~panicked
  /\ events < MaxEvents
  /\ \E inputs \in FullInputs :
       movement' = [movement EXCEPT !.mode.target_velocity = Joints(inputs)]
  /\ events' = events + 1
  /\ UNCHANGED <<goal, fullTicks, snapped, robotVars, servoVars, mathVars,
                 serialVars, motionVars>>

NextFull ==
  \/ FullUpdate
  \/ FullUpdateInputs
  \/ FullSetTarget
  \/ MediumUpdate
  \/ MediumUpdateInputs
  \/ NoAssistUpdate
  \/ NoAssistUpdateInputs

SpecFull == InitFull /\ [][NextFull]_vars

(***************************************************************************)
(* The servo encoding as a state machine                                   *)
(***************************************************************************)

InitServos ==
  /\ \/ /\ servos \in [base : U16Samples, shoulder : U16Samples,
                       elbow : U16Samples, claw : U16Samples]
        /\ joint = JointDefault
     \/ /\ servos = [base |-> 0, shoulder |-> 0, elbow |-> 0, claw |-> 0]
        /\ joint \in JointSamples
  /\ encoded = None
  /\ command = None
  /\ RobotIdle
  /\ FullIdle
  /\ MathIdle
  /\ SerialIdle
  /\ MotionIdle

\* Servos::to_message
ToMessage ==
  /\ encoded' = Some(to_message(servos))
  /\ UNCHANGED <<servos, joint, command, robotVars, fullVars, mathVars,
                 serialVars, motionVars>>

\* Joint::into_servo
IntoServo ==
  /\ command' = Some(into_servo(joint))
  /\ UNCHANGED <<servos, encoded, joint, robotVars, fullVars, mathVars,
                 serialVars, motionVars>>

NextServos == ToMessage \/ IntoServo

SpecServos == InitServos /\ [][NextServos]_vars

(***************************************************************************)
(* Calls of the functions of kinematics and of parse_gamepad_axis          *)
(***************************************************************************)

\* the (input, deadzone) pairs tried
AxisArgs ==
  {[fn |-> "parse_gamepad_axis", input |-> i, deadzone |-> d] :
     i \in {-Scale, -900, -500, -200, -100, 0, 100, 200, 500, 900, Scale},
     d \in {0, 200, 500, 900}}

\* the side lengths tried
Sides == {0, 1 * Scale, 2 * Scale, 3 * Scale, 4 * Scale, 5 * Scale, 10 * Scale}

\* the (a, b, c) tried
TriangleArgs ==
  {[fn |-> "a_from_lengths", a |-> a, b |-> b, c |-> c] :
     a \in Sides, b \in Sides, c \in Sides}

\* the (angle, a, b) tried; the angles are 0, 30, .. 180 degrees
AngleArgs ==
  {[fn |-> "length_from_two_lengths_and_angle", angle |-> k * 30, a |-> a, b |-> b] :
     k \in 0..6, a \in Sides \ {0}, b \in Sides \ {0}}

\* the coordinates tried
Coordinates == {-4 * Scale, -3 * Scale, 0, 3 * Scale, 4 * Scale}

\* the vectors tried: every octant, the planes and axes between them, the
\* zero vector, and (3, 4, 5) of the test of position.rs
VecArgs ==
  {[fn |-> "vec", v |-> Vec(x, y, z)] :
     x \in Coordinates, y \in Coordinates, z \in Coordinates}
    \cup {[fn |-> "vec", v |-> Vec(3 * Scale, 4 * Scale, 5 * Scale)]}

\* the (upper_arm, lower_arm) tried: of the tests and of main.rs
ArmLengths ==
  {<<0, 0>>, <<1 * Scale, 1 * Scale>>, <<3 * Scale, 4 * Scale>>,
   <<100 * Scale, 100 * Scale>>, <<275 * Scale, 279 * Scale>>}

\* the positions tried for inverse kinematics
IkPositions ==
  {Vec(x, y, z) : x \in {-3 * Scale, 0, 1414}, y \in {0, 4 * Scale}, z \in {-1 * Scale, 0, 5 * Scale}}
    \cup {Vec(0, 300 * Scale, 300 * Scale), Vec(0, 0, 554 * Scale),
          Vec(0, 400 * Scale, 400 * Scale), Vec(554 * Scale, 0, 0),
          Vec(555 * Scale, 0, 0), Vec(120 * Scale, 160 * Scale, 0),
          Vec(120 * Scale, 160 * Scale, 1 * Scale)}

\* the (position, upper_arm, lower_arm) tried
IkArgs ==
  {[fn |-> "inverse_kinematics", pos |-> p, upper_arm |-> l[1], lower_arm |-> l[2]] :
     p \in IkPositions, l \in ArmLengths}

InitMath ==
  /\ args \in AxisArgs \cup TriangleArgs \cup AngleArgs \cup VecArgs \cup IkArgs
  /\ value = [op |-> "none"]
  /\ RobotIdle
  /\ FullIdle
  /\ ServoIdle
  /\ SerialIdle
  /\ MotionIdle

\* Robot::parse_gamepad_axis
ParseGamepadAxis ==
  /\ args.fn = "parse_gamepad_axis"
  /\ value' = [op |-> "parse_gamepad_axis",
               out |-> parse_gamepad_axis(args.input, args.deadzone)]
  /\ UNCHANGED <<args, robotVars, fullVars, servoVars, serialVars, motionVars>>

\* triangle::a_from_lengths
AFromLengths ==
  /\ args.fn = "a_from_lengths"
  /\ value' = [op |-> "a_from_lengths", out |-> a_from_lengths(args.a, args.b, args.c)]
  /\ UNCHANGED <<args, robotVars, fullVars, servoVars, serialVars, motionVars>>

\* triangle::length_from_two_lengths_and_angle
LengthFromTwoLengthsAndAngle ==
  /\ args.fn = "length_from_two_lengths_and_angle"
  /\ value' = [op |-> "length_from_two_lengths_and_angle",
               out |-> length_from_two_lengths_and_angle(args.angle, args.a, args.b)]
  /\ UNCHANGED <<args, robotVars, fullVars, servoVars, serialVars, motionVars>>

\* f_dst and dst of CordinateVec and of Vec3D
Dst ==
  /\ args.fn = "vec"
  /\ value' = [op |-> "dst",
               out |-> [f_dst |-> f_dst(args.v), dst |-> dst(args.v),
                        Vec3D_f_dst |-> Vec3D_f_dst(args.v),
                        Vec3D_dst |-> Vec3D_dst(args.v)]]
  /\ UNCHANGED <<args, robotVars, fullVars, servoVars, serialVars, motionVars>>

\* CordinateVec::to_sphere
ToSphere ==
  /\ args.fn = "vec"
  /\ value' = [op |-> "to_sphere", out |-> to_sphere(args.v)]
  /\ UNCHANGED <<args, robotVars, fullVars, servoVars, serialVars, motionVars>>

\* CordinateVec::to_sphere, then SphereVec::to_position
ToSphereToPosition ==
  /\ args.fn = "vec"
  /\ value' = [op |-> "to_position", out |-> to_position(to_sphere(args.v))]
  /\ UNCHANGED <<args, robotVars, fullVars, servoVars, serialVars, motionVars>>

\* CordinateVec::inverse_kinematics
InverseKinematics ==
  /\ args.fn = "inverse_kinematics"
  /\ value' = [op |-> "inverse_kinematics",
               out |-> inverse_kinematics(args.pos, args.upper_arm, args.lower_arm)]
  /\ UNCHANGED <<args, robotVars, fullVars, servoVars, serialVars, motionVars>>

NextMath ==
  \/ ParseGamepadAxis
  \/ AFromLengths
  \/ LengthFromTwoLengthsAndAngle
  \/ Dst
  \/ ToSphere
  \/ ToSphereToPosition
  \/ InverseKinematics

SpecMath == InitMath /\ [][NextMath]_vars

(***************************************************************************)
(* The Connection of communication.rs as a state machine                   *)
(***************************************************************************)

\* the most bytes that arrive at the port
MaxStream == 10

\* the byte other than PREFIX that can arrive as the n-th of the stream
DataByte(n) == 32 + n

\* the data given to Connection::write: two bytes, and a servo command
Payloads ==
  {<<1, 2>>,
   to_message([base |-> 2400, shoulder |-> 250, elbow |-> 1325, claw |-> 0])}

InitSerial ==
  /\ serial \in {ConnectionNew, ConnectionDefault}
  /\ stream = << >>
  /\ pending = << >>
  /\ received = << >>
  /\ reply = [op |-> "none"]
  /\ RobotIdle
  /\ FullIdle
  /\ ServoIdle
  /\ MathIdle
  /\ MotionIdle

\* Connection::connect
Connect ==
  /\ \E io \in BOOLEAN :
       \E r \in {connect(serial, io)} :
         /\ serial' = r.connection
         /\ reply' = [op |-> "connect", result |-> r.result,
                      used |-> ~serial.no_connect]
  /\ UNCHANGED <<stream, pending, received, robotVars, fullVars, servoVars,
                 mathVars, motionVars>>

\* the owner of the Connection sets its public field no_connect
SetNoConnect ==
  /\ \E flag \in BOOLEAN : serial' = [serial EXCEPT !.no_connect = flag]
  /\ reply' = [op |-> "no_connect"]
  /\ UNCHANGED <<stream, pending, received, robotVars, fullVars, servoVars,
                 mathVars, motionVars>>

\* a byte arrives at the open port
Arrive ==
  /\ serial.con # None
  /\ Len(stream) < MaxStream
  /\ \E byte \in {PREFIX, DataByte(Len(stream) + 1)} :
       /\ stream' = Append(stream, byte)
       /\ pending' = Append(pending, byte)
  /\ UNCHANGED <<serial, received, reply, robotVars, fullVars, servoVars,
                 mathVars, motionVars>>

\* Connection::write with allow_drooped = true
Write ==
  /\ \E data \in Payloads, io \in BOOLEAN :
       \E w \in {write(serial, data, io)} :
         reply' = [op |-> "write", result |-> w.result, data |-> data,
                   message |-> write_message(data), used |-> w.calls # << >>]
  /\ UNCHANGED <<serial, stream, pending, received, robotVars, fullVars,
                 servoVars, mathVars, motionVars>>

\* Connection::read; io is whether read_to_end succeeds, and it then gives
\* every byte that has arrived since the last read
Read(io) ==
  /\ \E r \in {read(serial, pending, io)} :
       /\ serial' = r.connection
       /\ pending' = IF r.used /\ r.result = "Ok" THEN << >> ELSE pending
       /\ received' = IF r.message # None
                      THEN Append(received, r.message[1])
                      ELSE received
       /\ reply' = [op |-> "read", result |-> r.result, message |-> r.message,
                    used |-> r.used]
  /\ UNCHANGED <<stream, robotVars, fullVars, servoVars, mathVars, motionVars>>

NextSerial ==
  \/ Connect
  \/ SetNoConnect
  \/ Arrive
  \/ Write
  \/ \E io \in BOOLEAN : Read(io)

SpecSerial == InitSerial /\ [][NextSerial]_vars

\* a Connection::default() whose connect succeeded, and the reads of it: a
\* caller that keeps calling read gets a successful read again and again
InitRead ==
  /\ serial = connect(ConnectionDefault, TRUE).connection
  /\ stream = << >>
  /\ pending = << >>
  /\ received = << >>
  /\ reply = [op |-> "none"]
  /\ RobotIdle
  /\ FullIdle
  /\ ServoIdle
  /\ MathIdle
  /\ MotionIdle

NextRead ==
  \/ Arrive
  \/ \E io \in BOOLEAN : Read(io)

SpecRead == InitRead /\ [][NextRead]_vars /\ WF_vars(Read(TRUE))

(***************************************************************************)
(* The MotionState of robot.rs as a state machine                          *)
(***************************************************************************)

MOTION_EASE_IN == 50

\* the number of ease_in calls explored
MaxEases == 12

\* the progress values a Moving state starts with: 0, 0.05, .. 1
Progresses == {50 * k : k \in 0..20}

\* the amounts given to ease_in
Amounts == {0, MOTION_EASE_IN, 100, 250, 500, Scale, 2 * Scale}

InitMotion ==
  /\ motion_state \in {Idle} \cup {Moving(p) : p \in Progresses}
  /\ amount = 0
  /\ eases = 0
  /\ RobotIdle
  /\ FullIdle
  /\ ServoIdle
  /\ MathIdle
  /\ SerialIdle

\* MotionState::ease_in
EaseIn ==
  /\ eases < MaxEases
  /\ \E by \in Amounts :
       /\ motion_state' = ease_in(motion_state, by)
       /\ amount' = by
  /\ eases' = eases + 1
  /\ UNCHANGED <<robotVars, fullVars, servoVars, mathVars, serialVars>>

\* Robot::idle_update, as far as motion_state goes: the robot starts to move
\* when its position is not its target position
IdleUpdate ==
  /\ motion_state.state = "Idle"
  /\ \E differs \in BOOLEAN :
       motion_state' = IF differs THEN Moving(0) ELSE motion_state
  /\ UNCHANGED <<amount, eases, robotVars, fullVars, servoVars, mathVars, serialVars>>

\* Robot::moving_update, as far as motion_state goes: update_position eases
\* in by MOTION_EASE_IN, and the robot is idle once at its target position
MovingUpdate ==
  /\ motion_state.state = "Moving"
  /\ eases < MaxEases
  /\ \E arrived \in BOOLEAN :
       motion_state' = IF arrived THEN Idle
                       ELSE ease_in(motion_state, MOTION_EASE_IN)
  /\ amount' = MOTION_EASE_IN
  /\ eases' = eases + 1
  /\ UNCHANGED <<robotVars, fullVars, servoVars, mathVars, serialVars>>

NextMotion == EaseIn \/ IdleUpdate \/ MovingUpdate

SpecMotion == InitMotion /\ [][NextMotion]_vars

(***************************************************************************)
(* Properties                                                              *)
(***************************************************************************)

\* the angle a joint's actuator is driven to
ActuatorAngle(j) == get_pivot_angle(j.motion, j.angle)

\* C1: Servos::to_message returns exactly 8 bytes; for the values base,
\* shoulder, elbow, claw in this order, byte 2i is the i-th value mod 256 and
\* byte 2i+1 is the i-th value div 256.
C1_ToMessageLittleEndian ==
  encoded # None =>
    LET bytes == encoded[1]
        values == <<servos.base, servos.shoulder, servos.elbow, servos.claw>>
    IN  /\ Len(bytes) = 8
        /\ \A i \in 0..3 : /\ bytes[2 * i + 1] = values[i + 1] % 256
                           /\ bytes[2 * i + 2] = values[i + 1] \div 256

\* the test of robot/mod.rs: {100, 200, 50, 1} has been encoded
C1_Encoded ==
  /\ servos = [base |-> 100, shoulder |-> 200, elbow |-> 50, claw |-> 1]
  /\ encoded = Some(<<100, 0, 200, 0, 50, 0, 1, 0>>)

\* C2: for every joint whose actuator angle lies within the joint's
\* [min, max], the command Joint::into_servo produces lies in [250, 2400].
C2_CommandInRange ==
  (/\ command # None
   /\ FGe(ActuatorAngle(joint), joint.min)
   /\ FLe(ActuatorAngle(joint), joint.max))
    => command[1] \in MIN_SERVO..MAX_SERVO

\* C3: for every joint with min < max, Joint::into_servo is
\* (actuator_angle - min) / (max - min) * (2400 - 250) + 250, truncated.
C3_AffineMap ==
  (/\ command # None
   /\ joint.min < joint.max
   /\ IsFinite(ActuatorAngle(joint)))
    => command[1] =
         AsU16(FAdd(FMul(FDiv(FSub(ActuatorAngle(joint), joint.min),
                              FSub(joint.max, joint.min)),
                         (MAX_SERVO - MIN_SERVO) * Scale),
                    MIN_SERVO * Scale))

\* C4: no update tick writes a command converted from NaN: after a tick, no
\* joint the written values were converted from has a NaN angle or a NaN
\* actuator angle.
C4_NoNaNCommand ==
  ticks > 0 =>
    \A j \in {robot.arm.base, robot.arm.shoulder, robot.arm.elbow, robot.arm.claw} :
      ~IsNaN(j.angle) /\ ~IsNaN(ActuatorAngle(j))

\* C5: a tick whose inverse kinematics fails leaves the base, shoulder and
\* elbow angles as they were before the tick, logs a warning, and goes on to
\* write the eight bytes and return the write's result.
C5_IkFailureKeepsAngles ==
  [][(ticks' = ticks + 1 /\ ik' = "Err") =>
       /\ robot'.arm.base.angle = robot.arm.base.angle
       /\ robot'.arm.shoulder.angle = robot.arm.shoulder.angle
       /\ robot'.arm.elbow.angle = robot.arm.elbow.angle
       /\ \E i \in 1..Len(log') :
            log'[i] = "WARN: Could not calculate inverse kinematics"
       /\ Len(sent') = 8
       /\ result' \in {"Ok", "NotConnected", "Error"}]_vars

\* a tick set the joint angles and the next tick's inverse kinematics failed
C5_IkFailed ==
  /\ ticks = 2
  /\ ik = "Err"
  /\ robot.arm.shoulder.angle # 0
  /\ robot.arm.elbow.angle # 0
  /\ Len(sent) = 8

\* C6: no update tick, whether its inverse kinematics succeeds or fails,
\* changes the claw joint's angle.
C6_ClawUntouched ==
  [][ticks' = ticks + 1 => robot'.arm.claw.angle = robot.arm.claw.angle]_vars

\* two ticks went by with the claw open, the last one's inverse kinematics
\* having set the other joints
C6_IkMovedOthers ==
  /\ ticks = 2
  /\ ik = "Ok"
  /\ robot.arm.claw.angle = 180 * Scale
  /\ robot.arm.shoulder.angle # 0
  /\ robot.arm.elbow.angle # 0

\* the planner started at rest at distance 10 from its target and has been
\* given nothing since
StartedAtDistance10 ==
  /\ events = 0
  /\ goal # None
  /\ dst(goal[1]) = 10 * Scale

\* C7: starting at rest at distance 10 from the target (acceleration 100,
\* dt 0.1), the planner has arrived after MaxFullTicks ticks: position is the
\* target, velocity is zero and target_position is None.
C7_Arrival ==
  (StartedAtDistance10 /\ fullTicks = MaxFullTicks) =>
    /\ movement.mode.position = goal[1]
    /\ movement.mode.velocity = Zero
    /\ movement.mode.target_position = None

\* the position lies on the far side of the target, seen from the origin, at
\* distance 0.04 or more
PastTarget(position, target) ==
  /\ IsFinite(position.x) /\ IsFinite(position.y) /\ IsFinite(position.z)
  /\ (position.x - target.x) * target.x + (position.y - target.y) * target.y
       + (position.z - target.z) * target.z > 0
  /\ FGe(dst(VSub(position, target)), 40)

\* C8: starting at rest at distance 10 from the target (acceleration 100,
\* dt 0.1), until arrival the position never lies on the far side of the
\* target at distance 0.04 or more.
C8_NoOvershoot ==
  (StartedAtDistance10 /\ movement.mode.target_position # None) =>
    ~PastTarget(movement.mode.position, goal[1])

\* C9: once a goto-target tick has snapped, every later Full::update tick with
\* no new input leaves position, velocity and target_position unchanged.
C9_NoOscillation ==
  [][(snapped /\ fullTicks' = fullTicks + 1) =>
       /\ movement'.mode.position = movement.mode.position
       /\ movement'.mode.velocity = movement.mode.velocity
       /\ movement'.mode.target_position = movement.mode.target_position]_vars

\* the planner travelled to a target at distance 10, snapped, and ticked again
C9_TickedAfterSnap ==
  /\ StartedAtDistance10
  /\ snapped
  /\ fullTicks = MaxFullTicks
  /\ movement.mode.position = goal[1]
  /\ movement.mode.target_position = None

\* C10: every goto-target tick at whose start the distance to the target is
\* below 0.04 and the speed below acceleration * dt snaps: it sets position to
\* the target, velocity and target_velocity to zero and target_position to
\* None.
C10_SnapWhenNear ==
  [][(/\ fullTicks' = fullTicks + 1
      /\ movement.mode.target_position # None
      /\ FLt(dst(VSub(movement.mode.target_position[1], movement.mode.position)), 40)
      /\ \A delta \in FullDeltas :
           FLt(dst(movement.mode.velocity), FMul(movement.acceleration, delta)))
     => /\ movement'.mode.position = movement.mode.target_position[1]
        /\ movement'.mode.velocity = Zero
        /\ movement'.mode.target_velocity = Zero
        /\ movement'.mode.target_position = None]_vars

\* C11: whenever a non-zero joystick deflection is given to the planner while
\* target_position is set, target_position is None afterwards (so that the
\* next tick runs in free mode).
C11_ManualOverride ==
  [][(/\ FullUpdateInputs
      /\ movement.mode.target_position # None
      /\ movement'.mode.target_velocity # Zero)
     => movement'.mode.target_position = None]_vars

\* C12: from a position inside the reachable sphere, after any sequence of
\* planner ticks the distance of the position from the origin is at most
\* upper_arm + lower_arm.
C12_WorkspaceBound ==
  (/\ movement.mode.kind = "Full"
   /\ IsFinite(movement.mode.position.x)
   /\ IsFinite(movement.mode.position.y)
   /\ IsFinite(movement.mode.position.z))
    => FLe(dst(movement.mode.position), MainReach)

\* C13: parse_gamepad_axis(input, deadzone) is 0 when |input| < deadzone and
\* sign(input) * (|input| - deadzone) / (1 - deadzone) otherwise; for input in
\* [-1, 1] and deadzone in [0, 1) it lies in [-1, 1], is 0 at
\* |input| = deadzone, is +1 / -1 at input = +1 / -1, and (0.5, 0.2) gives 0.375.
C13_DeadzoneRescale ==
  value.op = "parse_gamepad_axis" =>
    LET input == args.input
        deadzone == args.deadzone
        out == value.out
    IN  /\ Abs(input) < deadzone => out = 0
        /\ Abs(input) >= deadzone =>
             Abs(out * (Scale - deadzone)
                 - Sgn(input) * (Abs(input) - deadzone) * Scale) <= Scale - deadzone
        /\ out \in -Scale..Scale
        /\ Abs(input) = deadzone => out = 0
        /\ input = Scale => out = Scale
        /\ input = -Scale => out = -Scale
        /\ (input = 500 /\ deadzone = 200) => out = 375

\* parse_gamepad_axis(0.5, 0.2) has returned 0.375
C13_Rescaled ==
  /\ args = [fn |-> "parse_gamepad_axis", input |-> 500, deadzone |-> 200]
  /\ value = [op |-> "parse_gamepad_axis", out |-> 375]

\* C14: a_from_lengths(a, b, c) is NaN whenever a = 0 or b = 0 or the sides
\* violate the triangle inequality (c > a + b or c < |a - b|), is an angle in
\* [0, pi] for every other non-negative input, and is 90 degrees for (3, 4, 5).
C14_AngleFromSides ==
  value.op = "a_from_lengths" =>
    LET a == args.a
        b == args.b
        c == args.c
        no_solution == a = 0 \/ b = 0 \/ c > a + b \/ c < Abs(a - b)
    IN  /\ no_solution => IsNaN(value.out)
        /\ ~no_solution => value.out \in 0..PI
        /\ (a = 3 * Scale /\ b = 4 * Scale /\ c = 5 * Scale) =>
             to_degrees(value.out) = 90 * Scale

\* a_from_lengths(3, 4, 5) has returned a right angle
C14_RightAngle ==
  /\ args = [fn |-> "a_from_lengths", a |-> 3 * Scale, b |-> 4 * Scale, c |-> 5 * Scale]
  /\ value = [op |-> "a_from_lengths", out |-> 90]

\* a_from_lengths has returned NaN for sides that close no triangle
C14_NoTriangle ==
  /\ args = [fn |-> "a_from_lengths", a |-> 1 * Scale, b |-> 2 * Scale, c |-> 4 * Scale]
  /\ value.op = "a_from_lengths"
  /\ IsNaN(value.out)

\* a^2 + b^2 - 2*a*b*cos(angle)
LawOfCosines(angle, a, b) ==
  FSub(FAdd(Sq(a), Sq(b)), FMul(FMul(2 * Scale, FMul(a, b)), Cos(angle)))

\* C15: for every angle in [0, pi] and all positive a and b, a # b included,
\* the square of length_from_two_lengths_and_angle(angle, a, b) equals
\* a^2 + b^2 - 2*a*b*cos(angle) (here: to 0.5).
C15_ThirdSide ==
  value.op = "length_from_two_lengths_and_angle" =>
    Abs(Sq(value.out) - LawOfCosines(args.angle, args.a, args.b)) <= 500

\* the same for a = b alone
C15_ThirdSideIsosceles ==
  (value.op = "length_from_two_lengths_and_angle" /\ args.a = args.b) =>
    Abs(Sq(value.out) - LawOfCosines(args.angle, args.a, args.b)) <= 500

\* r is the square root of n, to the unit
IsRoot(r, n) == r >= 0 /\ r * r <= n /\ n < (r + 1) * (r + 1)

\* C16: for every vector (x, y, z), dst() squared is x^2 + y^2 + z^2 and
\* f_dst() squared is x^2 + y^2, for CordinateVec and for Vec3D.
C16_Distances ==
  value.op = "dst" =>
    LET v == args.v
        flat == v.x * v.x + v.y * v.y
        full == v.x * v.x + v.y * v.y + v.z * v.z
    IN  /\ IsRoot(value.out.f_dst, flat)
        /\ IsRoot(value.out.dst, full)
        /\ IsRoot(value.out.Vec3D_f_dst, flat)
        /\ IsRoot(value.out.Vec3D_dst, full)

\* the same for CordinateVec alone
C16_CordinateVecDistances ==
  value.op = "dst" =>
    LET v == args.v
    IN  /\ IsRoot(value.out.f_dst, v.x * v.x + v.y * v.y)
        /\ IsRoot(value.out.dst, v.x * v.x + v.y * v.y + v.z * v.z)

\* C17: to_sphere never produces an undefined angle: azimuth and polar are
\* finite for every vector, and azimuth is 0 for every vector with x = 0 and
\* y = 0.
C17_NoUndefinedAngle ==
  value.op = "to_sphere" =>
    /\ IsFinite(value.out.azimuth)
    /\ IsFinite(value.out.polar)
    /\ (args.v.x = 0 /\ args.v.y = 0) => value.out.azimuth = 0

\* C18: inverse_kinematics returns Err for every position whose distance is
\* greater than upper_arm + lower_arm and for distance 0, and it never returns
\* Ok with a base, shoulder or elbow that is NaN.
C18_IkUnreachable ==
  value.op = "inverse_kinematics" =>
    LET distance == dst(args.pos)
    IN  /\ (distance > args.upper_arm + args.lower_arm \/ distance = 0) =>
             value.out = <<"Err">>
        /\ value.out[1] = "Ok" =>
             ~IsNaN(value.out[2]) /\ ~IsNaN(value.out[3]) /\ ~IsNaN(value.out[4])

\* inverse_kinematics has returned Err for (0, 0, 0) with arms 0, 0
C18_ZeroArms ==
  /\ args = [fn |-> "inverse_kinematics", pos |-> Zero, upper_arm |-> 0, lower_arm |-> 0]
  /\ value = [op |-> "inverse_kinematics", out |-> <<"Err">>]

\* inverse_kinematics has returned Err for a position just out of reach
C18_OutOfReach ==
  /\ args.fn = "inverse_kinematics"
  /\ args.pos = Vec(120 * Scale, 160 * Scale, 1 * Scale)
  /\ args.upper_arm = 100 * Scale
  /\ value = [op |-> "inverse_kinematics", out |-> <<"Err">>]

\* a and b differ by at most 2 % of the length d, and 0.005
Close(a, b, d) == IsFinite(a) /\ IsFinite(b) /\ Abs(a - b) <= d \div 50 + 5

\* C19: for every vector v of non-zero distance that is not on the polar axis,
\* in every octant, to_sphere(v).to_position() equals v up to tolerance (here
\* 2 % of the distance, the model's angles being whole degrees).
C19_RoundTrip ==
  (value.op = "to_position" /\ ~(args.v.x = 0 /\ args.v.y = 0)) =>
    LET d == dst(args.v)
    IN  /\ Close(value.out.x, args.v.x, d)
        /\ Close(value.out.y, args.v.y, d)
        /\ Close(value.out.z, args.v.z, d)

\* a vector with x < 0, y > 0 and z < 0 has made the round trip
C19_BackOctant ==
  /\ args = [fn |-> "vec", v |-> Vec(-3 * Scale, 4 * Scale, -4 * Scale)]
  /\ value.op = "to_position"
  /\ value.out.x < 0 /\ value.out.y > 0 /\ value.out.z < 0

\* C20: the only thing that makes a step of the update cycle panic is the
\* Start button: whenever the process has panicked, the panic is the one of
\* the button.
C20_PanicOnlyOnStop ==
  panicked => panic = "Start button pressed, there is only death now"

\* C21: a Robot::update tick hands the message of the arm after the planner
\* and IK steps to the port at most once, and returns what that one write
\* gave: Ok under no_connect, NotConnected when no port is open, and
\* otherwise Ok or Error as the port's write ended, with no second write.
C21_OneWritePerTick ==
  [][Update =>
       /\ sent' = to_message(to_servos(robot'.arm))
       /\ IF connection.no_connect
          THEN result' = "Ok" /\ port_writes' = << >>
          ELSE IF connection.con = None
          THEN result' = "NotConnected" /\ port_writes' = << >>
          ELSE /\ result' \in {"Ok", "Error"}
               /\ port_writes' = <<<<PREFIX>> \o sent'>>]_vars

\* a tick whose write failed on an open port
C21_WriteFailed ==
  ticks > 0 /\ result = "Error" /\ Len(port_writes) = 1

\* a tick that found no port open
C21_NotConnected ==
  ticks > 0 /\ result = "NotConnected" /\ connection = ConnectionDefault

\* the elements of a sequence
Range(s) == {s[i] : i \in 1..Len(s)}

\* a valid message starts at place i of the stream: a PREFIX with 8 bytes
\* other than PREFIX after it
ValidMessageAt(i) ==
  /\ Len(stream) >= i + 8
  /\ stream[i] = PREFIX
  /\ \A k \in 1..8 : stream[i + k] # PREFIX

\* read has returned the 8 bytes after place i of the stream
ReturnedAt(i) ==
  Len(stream) >= i + 8 /\ SubSeq(stream, i + 1, i + 8) \in Range(received)

\* C22: read is complete: every valid message of the stream is eventually
\* returned by read when read keeps being called, whatever follows the
\* message (the no_connect flag, under which read ignores the port, apart).
C22_ReadComplete ==
  \A i \in 1..MaxStream :
    ValidMessageAt(i) ~> (ReturnedAt(i) \/ serial.no_connect)

\* a valid message that was returned: one more data byte followed it
C22_Returned ==
  \E i \in 1..MaxStream :
    ValidMessageAt(i) /\ ReturnedAt(i)

\* once every byte has been read, a valid message of the stream has been
\* returned or is still held by the Connection
C22_NotDiscarded ==
  \A i \in 1..MaxStream :
    (ValidMessageAt(i) /\ pending = << >>) =>
      \/ ReturnedAt(i)
      \/ SubSeq(stream, i + 1, i + 8) \in Range(serial.msg_buf) \cup {serial.read_buf}

\* C23: read is sound: every message read returned is 8 bytes long and
\* stands in the stream right after a PREFIX.
C23_ReadSound ==
  \A m \in Range(received) :
    /\ Len(m) = 8
    /\ \E i \in 1..Len(stream) :
         /\ stream[i] = PREFIX
         /\ Len(stream) >= i + 8
         /\ SubSeq(stream, i + 1, i + 8) = m

\* every message read returned is 8 bytes long
C23_EightBytes ==
  \A m \in Range(received) : Len(m) = 8

C24_WriteIgnored ==
  serial.no_connect /\ reply.op = "write" /\ reply.result = "Ok"

\* a connect under no_connect
C24_ConnectIgnored ==
  serial.no_connect /\ serial.con = None /\ reply.op = "connect" /\ reply.result = "Ok"

\* C25: Connection::write hands write_raw the payload framed: '\r', the
\* payload bytes in order, then '\n'.
C25_Framed ==
  [][Write => reply'.message = <<13>> \o reply'.data \o <<10>>]_vars

\* Connection::write hands write_raw '\r' and then the payload bytes in order
C25_PrefixAndPayload ==
  [][Write => SubSeq(reply'.message, 1, 1 + Len(reply'.data)) = <<13>> \o reply'.data]_vars

\* the logical angle of a joint lies within its range
InRange(j) ==
  ~IsNaN(j.angle) /\ FLe(j.min, j.angle) /\ FLe(j.angle, j.max)

\* C26: after any sequence of update ticks the logical angle of every joint
\* lies within that joint's [min, max].
C26_JointsInRange ==
  ticks > 0 =>
    /\ InRange(robot.arm.base)
    /\ InRange(robot.arm.shoulder)
    /\ InRange(robot.arm.elbow)
    /\ InRange(robot.arm.claw)

\* after update ticks at positions with x > 0 and z > 0 the angles of the
\* joints lie within their ranges
C26_FrontJointsInRange ==
  (ticks > 0 /\ ik = "Ok" /\ FGt(robot.position.x, 0) /\ FGt(robot.position.z, 0)) =>
    /\ InRange(robot.arm.base)
    /\ InRange(robot.arm.shoulder)
    /\ InRange(robot.arm.elbow)

\* C27: a goto-target tick clears target_position only if at its start the
\* distance to the target was below 0.04 and the speed below acceleration *
\* dt, and it then sets position to the target and velocity to zero; every
\* other goto-target tick leaves target_position and target_velocity unchanged.
C27_SnapOnlyWhenNearAndSlow ==
  [][(FullUpdate /\ movement.mode.target_position # None)
       => IF movement'.mode.target_position = None
          THEN /\ FLt(dst(VSub(movement.mode.target_position[1],
                               movement.mode.position)), 40)
               /\ \E delta \in FullDeltas :
                    FLt(dst(movement.mode.velocity), FMul(movement.acceleration, delta))
               /\ movement'.mode.position = movement.mode.target_position[1]
               /\ movement'.mode.velocity = Zero
          ELSE /\ movement'.mode.target_position = movement.mode.target_position
               /\ movement'.mode.target_velocity = movement.mode.target_velocity]_vars

\* the planner travelled to its target and snapped there
C27_Snapped ==
  /\ snapped
  /\ fullTicks > 1
  /\ goal # None
  /\ movement.mode.target_position = None
  /\ movement.mode.position = goal[1]

\* a goto-target tick with a joystick deflection held that did not snap
C27_NotSnapped ==
  /\ fullTicks > 0
  /\ movement.mode.target_position # None
  /\ movement.mode.target_velocity # Zero

\* each component of a lies within -b .. b of the same component of b
Within(a, b) ==
  /\ FLe(FAbs(a.x), b.x)
  /\ FLe(FAbs(a.y), b.y)
  /\ FLe(FAbs(a.z), b.z)

\* C28: a free-mode tick changes each velocity component by
\* dv = clamp(target_velocity - velocity, -a*dt, a*dt) and advances position
\* by (velocity before + dv/2) * dt; no component of the velocity changes by
\* more than a*dt, and a velocity within +/-max_velocity stays within it when
\* the target velocity is.
C28_FreeTick ==
  [][(FullUpdate /\ movement.mode.target_position = None)
       => \E dt \in FullDeltas :
            LET f == movement.mode
                adt == FMul(movement.acceleration, dt)
                dv == cube_clamp(VSub(f.target_velocity, f.velocity), FNeg(adt), adt)
                mid == VAdd(f.velocity, VScale(dv, Scale \div 2))
                step == VSub(movement'.mode.velocity, f.velocity)
            IN  /\ movement'.mode.velocity = VAdd(f.velocity, dv)
                /\ movement'.mode.position = VAdd(f.position, VScale(mid, dt))
                /\ Within(step, Vec(adt, adt, adt))
                /\ (Within(f.target_velocity, f.max_velocity)
                    /\ Within(f.velocity, f.max_velocity))
                     => Within(movement'.mode.velocity, f.max_velocity)]_vars

\* a free-mode tick whose change of velocity was limited to a*dt
C28_Limited ==
  /\ fullTicks > 0
  /\ movement.mode.kind = "Full"
  /\ movement.mode.target_position = None
  /\ goal = None
  /\ movement.mode.velocity # Zero
  /\ movement.mode.velocity # movement.mode.target_velocity

\* a free-mode tick that reached the target velocity of a full deflection
C28_AtMaxVelocity ==
  /\ fullTicks > 0
  /\ movement.mode.kind = "Full"
  /\ goal = None
  /\ movement.mode.target_position = None
  /\ movement.mode.velocity.x = movement.mode.max_velocity.x

\* the vector of length len along v, whose length is n
Along(v, n, len) ==
  Vec(FDiv(FMul(len, v.x), n), FDiv(FMul(len, v.y), n), FDiv(FMul(len, v.z), n))

\* two vectors are equal up to 2 % of d
VClose(a, b, d) == Close(a.x, b.x, d) /\ Close(a.y, b.y, d) /\ Close(a.z, b.z, d)

\* a goto-target tick that does not snap
GotoTick ==
  /\ FullUpdate
  /\ movement.mode.target_position # None
  /\ movement'.mode.target_position # None

\* a goto-target tick that brakes
BrakeTick ==
  /\ GotoTick
  /\ \E dt \in FullDeltas :
       goto_branch(movement.mode, dt, movement.acceleration,
                   movement.mode.target_position[1]) = "brake"

\* C29: on a goto-target tick that does not snap, the velocity changes by a
\* vector of magnitude acceleration * dt, toward the target when distance >
\* speed^2 / (2 * acceleration) and against the current velocity otherwise;
\* on a braking tick the speed does not increase and the velocity does not
\* reverse; the position advances by the midpoint velocity times dt.
C29_GotoTick ==
  [][GotoTick =>
       \E dt \in FullDeltas :
         LET f == movement.mode
             delta == VSub(f.target_position[1], f.position)
             distance == dst(delta)
             speed == dst(f.velocity)
             adt == FMul(movement.acceleration, dt)
             dv == VSub(movement'.mode.velocity, f.velocity)
             mid == VScale(VAdd(f.velocity, movement'.mode.velocity), Scale \div 2)
         IN  /\ IF FGt(distance, FDiv(Sq(speed), FMul(2 * Scale, movement.acceleration)))
                THEN VClose(dv, Along(delta, distance, adt), adt)
                ELSE /\ VClose(dv, Along(f.velocity, speed, FNeg(adt)), adt)
                     /\ FLe(dst(movement'.mode.velocity), speed)
                     /\ FGe(FAdd(FAdd(FMul(movement'.mode.velocity.x, f.velocity.x),
                                      FMul(movement'.mode.velocity.y, f.velocity.y)),
                                 FMul(movement'.mode.velocity.z, f.velocity.z)), 0)
             /\ VClose(movement'.mode.position, VAdd(f.position, VScale(mid, dt)), adt)]_vars

\* on a braking tick at a finite velocity off the z axis the speed does not
\* increase
C29_BrakeSlows ==
  [][(/\ BrakeTick
      /\ IsFinite(movement.mode.velocity.x)
      /\ ~(movement.mode.velocity.x = 0 /\ movement.mode.velocity.y = 0))
       => FLe(dst(movement'.mode.velocity), dst(movement.mode.velocity))]_vars

\* on a goto-target tick toward a target off the z axis of the position, with
\* a speed of acceleration * dt or more when braking, the velocity changes
\* as C29 says
C29_GotoTickOffAxis ==
  [][(/\ GotoTick
      /\ ~(/\ movement.mode.target_position[1].x = movement.mode.position.x
           /\ movement.mode.target_position[1].y = movement.mode.position.y)
      /\ IsFinite(movement.mode.velocity.x)
      /\ BrakeTick => (/\ \A dt \in FullDeltas :
                            FGe(dst(movement.mode.velocity),
                                FMul(movement.acceleration, dt))
                       /\ ~(movement.mode.velocity.x = 0 /\ movement.mode.velocity.y = 0)))
       => \E dt \in FullDeltas :
            LET f == movement.mode
                delta == VSub(f.target_position[1], f.position)
                adt == FMul(movement.acceleration, dt)
                dv == VSub(movement'.mode.velocity, f.velocity)
            IN  IF BrakeTick
                THEN /\ VClose(dv, Along(f.velocity, dst(f.velocity), FNeg(adt)), adt)
                     /\ FLe(dst(movement'.mode.velocity), dst(f.velocity))
                ELSE VClose(dv, Along(delta, dst(delta), adt), adt)]_vars

\* C30: while the state is Moving(p), ease_in(amount) with amount > 0 moves p
\* toward 1.0 by the amount, capped at 1.0; in Idle it changes nothing.
C30_EaseIn ==
  [][EaseIn =>
       IF motion_state.state = "Moving"
       THEN amount' > 0 =>
              motion_state' = Moving(IF motion_state.x + amount' < Scale
                                     THEN motion_state.x + amount'
                                     ELSE Scale)
       ELSE motion_state' = motion_state]_vars

\* while the state is Moving, ease_in with amount > 0 does not lower p
C30_NonDecreasing ==
  [][(EaseIn /\ motion_state.state = "Moving" /\ amount' > 0)
       => motion_state'.x >= motion_state.x]_vars

\* the progress of a Moving state lies within [0, 1]
C30_InUnitInterval ==
  motion_state.state = "Moving" => (0 <= motion_state.x /\ motion_state.x <= Scale)

\* in Idle, ease_in changes nothing
C30_IdleUnchanged ==
  [][(EaseIn /\ motion_state.state = "Idle") => motion_state' = motion_state]_vars

=============================================================================
